---- MODULE Spec2Model ----
(***************************************************************************)
(* Model of kvmd/streamer.py: the Streamer facade (start, stop, cleanup,   *)
(* is_running), the power sequencer __set_hw_enabled, the supervisor loop  *)
(* __process and the kill procedure __kill, run on one asyncio event loop. *)
(*                                                                         *)
(* One step of the model is the code executed by one coroutine between two *)
(* awaits: asyncio runs that code without interleaving.  The environment   *)
(* (device presence, spawn result, child output, child exit, signal        *)
(* delivery) is nondeterministic.                                          *)
(***************************************************************************)
EXTENDS Integers, Sequences, FiniteSets, TLC

\* ---------------------------------------------------------------- bounds
MaxTasks == 2        \* supervisor-task slots (a slot is reused once joined)
MaxProcs == 2        \* child processes that can exist at the same time

\* ------------------------------------------------------ program constants
EmptyLimit == 100    \* `if empty == 100` in __process

\* The coroutines that call the facade.  Owner is the orchestration layer,
\* which issues its calls one after the other; Other is a second coroutine.
Owner == "owner"
Other == "other"
Callers == {Owner, Other}
Tasks == 1..MaxTasks
Procs == 1..MaxProcs

\* Values the constructor can be given.  A pin is configured iff it is > 0.
CapPins == {0, 5}
ConvPins == {-1, 7}
Binds == {"", "1-1.4:1.0"}
\* What the command template refers to: only {width}/{height}, also
\* {device}, or a name str.format() does not know.
Templates == {"size", "device", "unknown"}

VARIABLES
    cap_power,      \* self.__cap_power
    conv_power,     \* self.__conv_power
    bind,           \* self.__bind
    cmd,            \* self.__cmd, abstracted to the placeholders it uses
    cancelled_is_exception,
                    \* TRUE on an interpreter where asyncio.CancelledError
                    \* derives from Exception (Python < 3.8), FALSE where it
                    \* derives from BaseException only (Python >= 3.8)
    proc_task,      \* self.__proc_task: 0 is None, else a task slot
    task,           \* task slot -> the coroutine state of __process
    child,          \* child process slot -> its state
    gpio,           \* level last written to each power pin
    hw_log,         \* writes and sleeps of the current/last __set_hw_enabled
    logged,         \* the last message __kill has logged ("": none yet)
    call            \* caller -> the facade call it is in

vars == <<cap_power, conv_power, bind, cmd, cancelled_is_exception,
          proc_task, task, child, gpio, hw_log, logged, call>>

config == <<cap_power, conv_power, bind, cmd, cancelled_is_exception>>

\* A task slot.  pc is the await the coroutine is suspended at.
\*   none       no task object
\*   created    create_task() done, the coroutine has not run yet
\*   resolve    await run_in_executor(locate_by_bind)
\*   spawn      await create_subprocess_exec
\*   read       await proc.stdout.readline()
\*   cooldown   await asyncio.sleep(1) in `except Exception`
\*   kill_sleep await asyncio.sleep(1) in __kill
\*   kill_wait  await proc.wait() in __kill
\*   done       the coroutine has returned or raised
\* proc is the local `proc` (0 is None), empty the local `empty`,
\* err the exception bound by `except Exception as err` ("": none),
\* after is what follows the `finally` block once __kill returns,
\* must_cancel is a cancellation requested and not yet thrown in.
\* Three fields record history: kill_log the calls __kill has made in the
\* current iteration of the loop, cancelled whether a CancelledError has
\* been thrown into the coroutine, blank_reads how many reads in a row
\* readline() has answered with a blank line.
NoTask == [pc |-> "none", proc |-> 0, empty |-> 0, err |-> "", after |-> "none",
           must_cancel |-> FALSE, kill_log |-> <<>>, cancelled |-> FALSE,
           blank_reads |-> 0]

\* A facade call of a caller.  op is the method, pc the await it is
\* suspended at ("idle": returned), result how the last call ended,
\* awaited the task passed to asyncio.gather.
NoCall == [op |-> "none", pc |-> "idle", result |-> "none", awaited |-> 0]

Init ==
    /\ cap_power \in CapPins
    /\ conv_power \in ConvPins
    /\ bind \in Binds
    /\ cmd \in Templates
    /\ cancelled_is_exception \in BOOLEAN
    /\ proc_task = 0
    /\ task = [t \in Tasks |-> NoTask]
    /\ child = [p \in Procs |-> "free"]
    /\ gpio = [cap |-> "unknown", conv |-> "unknown"]
    /\ hw_log = <<>>
    /\ logged = ""
    /\ call = [c \in Callers |-> NoCall]

\* ------------------------------------------------------ child processes
\* A child slot is "free", "alive", "exited" (dead, the event loop has not
\* collected the status yet: proc.returncode is still None) or reaped:
\* proc.returncode is set, to 0 or to something else.
Reaped == {"returncode 0", "returncode not 0"}

returncode_is_None(ch, p) == ch[p] \in {"alive", "exited"}

\* The local `proc` goes out of scope: the slot of a dead child is reused,
\* a child that is still alive stays alive with nobody referring to it.
Release(ch, p) == IF p = 0 \/ ch[p] = "alive" THEN ch ELSE [ch EXCEPT ![p] = "free"]

Referenced(p) == \E t \in Tasks : task[t].proc = p

\* ------------------------------------------- __process, between two awaits
\* Every operator below is the set of outcomes of running the coroutine
\* from one point up to its next await: t the new coroutine state, ch the
\* new child states, log what __kill logged in the step ("" for nothing).
\* Several outcomes are the environment's choice.
Out(tr, ch) == [t |-> tr, ch |-> ch, log |-> ""]

Logging(msg, outs) == {[o EXCEPT !.log = msg] : o \in outs}

\* The two messages of __kill.
Killed == "Streamer killed"
CantKill == "Can't kill streamer"

\* The coroutine ends: `break` out of `while True`, or CancelledError leaving it.
Finish(tr, ch) ==
    {Out([NoTask EXCEPT !.pc = "done", !.kill_log = tr.kill_log,
                        !.cancelled = tr.cancelled],
         Release(ch, tr.proc))}

\* The exceptions raised inside the `try` of __process.
CantLocate == "RuntimeError: Can't locate device"
KeyError == "KeyError"
SpawnError == "OSError"
WTF == "RuntimeError: WTF"
ValueError == "ValueError"

\* `except Exception as err`: log, then await asyncio.sleep(1).
ExceptException(tr, ch, err) ==
    {Out([tr EXCEPT !.pc = "cooldown", !.empty = 0, !.err = err], ch)}

\* str.format() of every part of cmd; {device} is known only with a bind.
FormatOk == cmd = "size" \/ (cmd = "device" /\ bind # "")

\* cmd = [part.format(...)], then await create_subprocess_exec(...).
Format(tr, ch) ==
    IF FormatOk THEN {Out([tr EXCEPT !.pc = "spawn"], ch)}
    ELSE ExceptException(tr, ch, KeyError)

\* Faulty variant: an iteration formats the command without resolving the
\* device again.
BeginIteration_unresolved(tr, ch) ==
    Format([tr EXCEPT !.proc = 0, !.empty = 0, !.err = "", !.after = "none",
                      !.kill_log = <<>>],
           Release(ch, tr.proc))

\* Top of `while True`: proc = None, then resolve the device if bind is set.
BeginIteration(tr, ch) ==
    LET tr0 == [tr EXCEPT !.proc = 0, !.empty = 0, !.err = "", !.after = "none",
                          !.kill_log = <<>>]
        ch0 == Release(ch, tr.proc)
    IN  IF bind # "" THEN {Out([tr0 EXCEPT !.pc = "resolve"], ch0)}
        ELSE Format(tr0, ch0)

\* What follows the `finally` block: the next iteration after a handled
\* Exception ("continue"), the end of the loop after `break` ("break"), or
\* the CancelledError raised in the cooldown sleep going on up ("raise").
AfterFinally(tr, ch, how) ==
    IF how = "continue" THEN BeginIteration(tr, ch) ELSE Finish(tr, ch)

\* `except Exception` of __kill: the message depends on proc.returncode;
\* then __kill returns.
KillExcept(tr, ch) ==
    Logging(IF returncode_is_None(ch, tr.proc) THEN CantKill ELSE Killed,
            AfterFinally(tr, ch, tr.after))

\* __kill makes the calls in cs.
Called(tr, cs) == [tr EXCEPT !.kill_log = @ \o cs]

\* __kill up to its first await: proc.terminate() either is sent, and the
\* coroutine sleeps 1 s, or raises.
Kill(tr, ch, how) ==
    LET tr0 == [tr EXCEPT !.empty = 0, !.after = how]
    IN  {Out(Called([tr0 EXCEPT !.pc = "kill_sleep"], <<"terminate", "sleep">>), ch)}
        \cup KillExcept(Called(tr0, <<"terminate raised">>), ch)

\* Faulty variant: the `finally` block does not call __kill.
Finally_no_kill(tr, ch, how) == AfterFinally(tr, ch, how)

\* finally: if proc and proc.returncode is None: await self.__kill(proc)
Finally(tr, ch, how) ==
    IF tr.proc # 0 /\ returncode_is_None(ch, tr.proc) THEN Kill(tr, ch, how)
    ELSE AfterFinally(tr, ch, how)

\* The first run of the coroutine.
FirstStep(tr, ch) == BeginIteration(tr, ch)

\* locate_by_bind returned: a path, or "" and RuntimeError is raised.
Resolved(tr, ch) == Format(tr, ch) \cup ExceptException(tr, ch, CantLocate)

FreeProcs(ch) == {p \in Procs : ch[p] = "free"}

\* create_subprocess_exec returned a process, or raised.
Spawned(tr, ch) ==
    (IF FreeProcs(ch) = {} THEN {}
     ELSE LET p == CHOOSE q \in FreeProcs(ch) : \A r \in FreeProcs(ch) : q <= r
          IN  {Out([tr EXCEPT !.proc = p, !.empty = 0, !.pc = "read"],
                   [ch EXCEPT ![p] = "alive"])})
    \cup ExceptException(tr, ch, SpawnError)

\* Faulty variant: a child that has exited with status 0 ends the loop.
LoopTest_clean_exit_ends(tr, ch) ==
    IF returncode_is_None(ch, tr.proc) THEN {Out(tr, ch)}
    ELSE IF ch[tr.proc] = "returncode 0" THEN Finish(tr, ch)
    ELSE ExceptException(tr, ch, WTF)

\* `while proc.returncode is None`, and raise RuntimeError("WTF") after it.
LoopTest(tr, ch) ==
    IF returncode_is_None(ch, tr.proc) THEN {Out(tr, ch)}
    ELSE ExceptException(tr, ch, WTF)

\* Faulty variant: a line that is not blank leaves the count as it is.
ReadLine_keeps_count(tr, ch) == LoopTest(tr, ch)

\* readline() returned a line that is not blank.
ReadLine(tr, ch) == LoopTest([tr EXCEPT !.empty = 0], ch)

\* readline() returned a blank line or b"".
ReadEmpty(tr, ch) ==
    IF tr.empty + 1 = EmptyLimit THEN ExceptException(tr, ch, WTF)
    ELSE LoopTest([tr EXCEPT !.empty = @ + 1], ch)

\* readline() raised (a line longer than the stream limit: ValueError).
ReadError(tr, ch) == ExceptException(tr, ch, ValueError)

\* The cooldown sleep in `except Exception` is over: err is unbound, on to
\* `finally`.
Cooled(tr, ch) == Finally([tr EXCEPT !.err = ""], ch, "continue")

\* proc.wait() has returned: log the return code, __kill returns.
KillDone(tr, ch) == Logging(Killed, AfterFinally(tr, ch, tr.after))

\* __kill after its sleep.  With returncode None: proc.kill(), which kills
\* the child or raises (an exception of kill() is swallowed while returncode
\* is None), then await proc.wait().  With returncode set proc.wait()
\* returns at once.
KillSlept(tr, ch) ==
    IF returncode_is_None(ch, tr.proc)
    THEN {Out(Called([tr EXCEPT !.pc = "kill_wait"], <<"kill", "wait">>),
              [ch EXCEPT ![tr.proc] = "exited"]),
          Out(Called([tr EXCEPT !.pc = "kill_wait"], <<"kill raised", "wait">>), ch)}
    ELSE KillDone(Called(tr, <<"wait">>), ch)

\* proc.wait() returns once the return code is set.
KillWaited(tr, ch) == IF ch[tr.proc] \in Reaped THEN KillDone(tr, ch) ELSE {}

\* CancelledError thrown into the coroutine at the await it is suspended
\* at.  Inside __kill, `except Exception` catches it only where
\* CancelledError is an Exception; elsewhere it leaves __kill, the finally
\* block and __process.
Cancelled(tr0, ch) ==
    LET tr == [tr0 EXCEPT !.must_cancel = FALSE, !.cancelled = TRUE, !.err = ""]
    IN  CASE tr.pc = "created" -> Finish(tr, ch)
          [] tr.pc \in {"resolve", "spawn", "read"} -> Finally(tr, ch, "break")
          [] tr.pc = "cooldown" -> Finally(tr, ch, "raise")
          [] tr.pc \in {"kill_sleep", "kill_wait"} ->
                IF cancelled_is_exception THEN KillExcept(tr, ch)
                ELSE Finish(tr, ch)
          [] OTHER -> {}

\* ------------------------------------------------- the event loop's steps
\* The coroutine of task t runs from the await it is suspended at to its
\* next await, with one of the outcomes in outs; blanks is the number of
\* blank lines in a row that readline() has answered with by now.
Run(t, outs, blanks) ==
    /\ \E o \in outs :
        /\ task' = [task EXCEPT ![t] = [o.t EXCEPT !.blank_reads =
                                            IF o.t.pc = "read" THEN blanks ELSE 0]]
        /\ child' = o.ch
        /\ logged' = IF o.log = "" THEN logged ELSE o.log
    /\ UNCHANGED <<config, proc_task, gpio, hw_log, call>>

Ready(t, pc) == task[t].pc = pc /\ ~task[t].must_cancel

TaskFirstStep == \E t \in Tasks : Ready(t, "created") /\ Run(t, FirstStep(task[t], child), 0)

TaskResolved == \E t \in Tasks : Ready(t, "resolve") /\ Run(t, Resolved(task[t], child), 0)

TaskSpawned == \E t \in Tasks : Ready(t, "spawn") /\ Run(t, Spawned(task[t], child), 0)

TaskReadLine == \E t \in Tasks : Ready(t, "read") /\ Run(t, ReadLine(task[t], child), 0)

TaskReadEmpty ==
    \E t \in Tasks : Ready(t, "read")
                      /\ Run(t, ReadEmpty(task[t], child), task[t].blank_reads + 1)

TaskReadError == \E t \in Tasks : Ready(t, "read") /\ Run(t, ReadError(task[t], child), 0)

TaskCooled == \E t \in Tasks : Ready(t, "cooldown") /\ Run(t, Cooled(task[t], child), 0)

TaskKillSlept == \E t \in Tasks : Ready(t, "kill_sleep") /\ Run(t, KillSlept(task[t], child), 0)

TaskKillWaited == \E t \in Tasks : Ready(t, "kill_wait") /\ Run(t, KillWaited(task[t], child), 0)

TaskCancelled ==
    \E t \in Tasks : task[t].must_cancel /\ Run(t, Cancelled(task[t], child), 0)

\* A child process exits by itself (or of the SIGTERM it was sent).
ChildExits ==
    /\ \E p \in Procs :
        /\ child[p] = "alive"
        /\ child' = [child EXCEPT ![p] = IF Referenced(p) THEN "exited" ELSE "free"]
    /\ UNCHANGED <<config, proc_task, task, gpio, hw_log, logged, call>>

\* The event loop collects the exit status of a dead child: returncode is set.
ChildReaped ==
    /\ \E p \in Procs :
        /\ child[p] = "exited"
        /\ \E status \in Reaped : child' = [child EXCEPT ![p] = status]
    /\ UNCHANGED <<config, proc_task, task, gpio, hw_log, logged, call>>

\* ------------------------------------------------------- power sequencer
Level(enabled) == IF enabled THEN "high" ELSE "low"

Write(pin, enabled) == IF enabled THEN pin \o "=True" ELSE pin \o "=False"

\* Faulty variant: the converter pin is written only when enabling.
set_hw_enabled_cap_only(enabled, g) ==
    LET g1 == IF cap_power > 0 THEN [g EXCEPT !.cap = Level(enabled)] ELSE g
        l1 == IF cap_power > 0 THEN <<Write("cap", enabled)>> ELSE <<>>
    IN  IF enabled
        THEN IF conv_power > 0
             THEN [gpio |-> g1, log |-> Append(l1, "sleep sync_delay"), wait |-> "sync_delay"]
             ELSE [gpio |-> g1, log |-> Append(l1, "sleep init_delay"), wait |-> "init_delay"]
        ELSE [gpio |-> g1, log |-> l1, wait |-> "none"]

\* Faulty variant: the sync_delay sleep is taken when disabling too.
set_hw_enabled_always_syncs(enabled, g) ==
    LET g1 == IF cap_power > 0 THEN [g EXCEPT !.cap = Level(enabled)] ELSE g
        l1 == IF cap_power > 0 THEN <<Write("cap", enabled)>> ELSE <<>>
    IN  IF conv_power > 0
        THEN IF enabled
             THEN [gpio |-> g1, log |-> Append(l1, "sleep sync_delay"), wait |-> "sync_delay"]
             ELSE [gpio |-> [g1 EXCEPT !.conv = Level(enabled)],
                   log |-> l1 \o <<"sleep sync_delay", Write("conv", enabled)>>,
                   wait |-> "none"]
        ELSE IF enabled
             THEN [gpio |-> g1, log |-> Append(l1, "sleep init_delay"), wait |-> "init_delay"]
             ELSE [gpio |-> g1, log |-> l1, wait |-> "none"]

\* __set_hw_enabled up to its first await (all of it when enabled is
\* false): the pin levels g after it, the events in order, and the sleep
\* it is suspended in ("none": it has returned).
set_hw_enabled(enabled, g) ==
    LET g1 == IF cap_power > 0 THEN [g EXCEPT !.cap = Level(enabled)] ELSE g
        l1 == IF cap_power > 0 THEN <<Write("cap", enabled)>> ELSE <<>>
    IN  IF conv_power > 0
        THEN IF enabled
             THEN [gpio |-> g1, log |-> Append(l1, "sleep sync_delay"), wait |-> "sync_delay"]
             ELSE [gpio |-> [g1 EXCEPT !.conv = Level(enabled)],
                   log |-> Append(l1, Write("conv", enabled)), wait |-> "none"]
        ELSE IF enabled
             THEN [gpio |-> g1, log |-> Append(l1, "sleep init_delay"), wait |-> "init_delay"]
             ELSE [gpio |-> g1, log |-> l1, wait |-> "none"]

\* __set_hw_enabled(True) after the sync_delay sleep.
set_hw_enabled_synced(g, l) ==
    [gpio |-> [g EXCEPT !.conv = Level(TRUE)],
     log |-> l \o <<Write("conv", TRUE), "sleep init_delay">>,
     wait |-> "init_delay"]

\* ----------------------------------------------------------------- facade
is_running == proc_task # 0

Returned(c, op, result) ==
    [call EXCEPT ![c] = [op |-> op, pc |-> "idle", result |-> result, awaited |-> 0]]

\* Faulty variant: start() without its assert.
start_unchecked(c) ==
    /\ call[c].pc = "idle"
    /\ LET hw == set_hw_enabled(TRUE, gpio)
       IN  /\ gpio' = hw.gpio
           /\ hw_log' = hw.log
           /\ call' = [call EXCEPT ![c] = [op |-> "start", pc |-> hw.wait,
                                            result |-> "pending", awaited |-> 0]]
           /\ UNCHANGED <<config, proc_task, task, child, logged>>

\* start(): the assert, then __set_hw_enabled(True) up to its first sleep.
start(c) ==
    /\ call[c].pc = "idle"
    /\ IF proc_task # 0
       THEN /\ call' = Returned(c, "start", "AssertionError")
            /\ UNCHANGED <<config, proc_task, task, child, gpio, hw_log, logged>>
       ELSE LET hw == set_hw_enabled(TRUE, gpio)
            IN  /\ gpio' = hw.gpio
                /\ hw_log' = hw.log
                /\ call' = [call EXCEPT ![c] = [op |-> "start", pc |-> hw.wait,
                                                 result |-> "pending", awaited |-> 0]]
                /\ UNCHANGED <<config, proc_task, task, child, logged>>

\* start() after the sync_delay sleep: the converter pin, then the init_delay sleep.
start_synced(c) ==
    /\ call[c].pc = "sync_delay"
    /\ LET hw == set_hw_enabled_synced(gpio, hw_log)
       IN  /\ gpio' = hw.gpio
           /\ hw_log' = hw.log
           /\ call' = [call EXCEPT ![c].pc = hw.wait]
    /\ UNCHANGED <<config, proc_task, task, child, logged>>

FreeTasks == {t \in Tasks : task[t].pc = "none"}

\* start() after the init_delay sleep: self.__proc_task = create_task(...).
start_create_task(c) ==
    /\ call[c].pc = "init_delay"
    /\ FreeTasks # {}
    /\ LET t == CHOOSE u \in FreeTasks : \A v \in FreeTasks : u <= v
       IN  /\ task' = [task EXCEPT ![t] = [NoTask EXCEPT !.pc = "created"]]
           /\ proc_task' = t
    /\ call' = Returned(c, "start", "ok")
    /\ UNCHANGED <<config, child, gpio, hw_log, logged>>

\* The body of stop() after its assert: cancel the task, await gather.
\* Task.cancel() does nothing to a task that is done.
stop_cancel(c, op) ==
    /\ task' = IF task[proc_task].pc = "done" THEN task
               ELSE [task EXCEPT ![proc_task].must_cancel = TRUE]
    /\ call' = [call EXCEPT ![c] = [op |-> op, pc |-> "gather",
                                     result |-> "pending", awaited |-> proc_task]]
    /\ UNCHANGED <<config, proc_task, child, gpio, hw_log, logged>>

stop(c) ==
    /\ call[c].pc = "idle"
    /\ IF proc_task = 0
       THEN /\ call' = Returned(c, "stop", "AssertionError")
            /\ UNCHANGED <<config, proc_task, task, child, gpio, hw_log, logged>>
       ELSE stop_cancel(c, "stop")

\* Faulty variant: cleanup() calls stop() without asking is_running().
cleanup_unconditional(c) ==
    /\ call[c].pc = "idle"
    /\ IF proc_task = 0
       THEN /\ call' = Returned(c, "cleanup", "AssertionError")
            /\ UNCHANGED <<config, proc_task, task, child, gpio, hw_log, logged>>
       ELSE stop_cancel(c, "cleanup")

\* cleanup(): stop() if is_running(), else nothing.
cleanup(c) ==
    /\ call[c].pc = "idle"
    /\ IF is_running
       THEN stop_cancel(c, "cleanup")
       ELSE /\ call' = Returned(c, "cleanup", "ok")
            /\ UNCHANGED <<config, proc_task, task, child, gpio, hw_log, logged>>

\* What stop() does to the task object it has joined.
Joined(c) ==
    LET t == call[c].awaited
    IN  IF \E d \in Callers \ {c} : call[d].pc = "gather" /\ call[d].awaited = t
        THEN task ELSE [task EXCEPT ![t] = NoTask]

\* Faulty variant: stop() does not clear self.__proc_task.
stop_gathered_keeps_handle(c) ==
    /\ call[c].pc = "gather"
    /\ task[call[c].awaited].pc = "done"
    /\ LET hw == set_hw_enabled(FALSE, gpio)
       IN  gpio' = hw.gpio /\ hw_log' = hw.log
    /\ task' = Joined(c)
    /\ call' = Returned(c, call[c].op, "ok")
    /\ UNCHANGED <<config, proc_task, child, logged>>

\* Faulty variant: stop() does not power off.
stop_gathered_no_power_off(c) ==
    /\ call[c].pc = "gather"
    /\ task[call[c].awaited].pc = "done"
    /\ task' = Joined(c)
    /\ proc_task' = 0
    /\ call' = Returned(c, call[c].op, "ok")
    /\ UNCHANGED <<config, child, gpio, hw_log, logged>>

\* Faulty variant: stop() powers off without awaiting the cancelled task.
stop_gathered_unjoined(c) ==
    /\ call[c].pc = "gather"
    /\ LET hw == set_hw_enabled(FALSE, gpio)
       IN  gpio' = hw.gpio /\ hw_log' = hw.log
    /\ task' = IF task[call[c].awaited].pc = "done" THEN Joined(c) ELSE task
    /\ proc_task' = 0
    /\ call' = Returned(c, call[c].op, "ok")
    /\ UNCHANGED <<config, child, logged>>

\* stop() once gather has the finished task: power off, clear the handle.
\* The task object is dropped when no other gather still holds it.
stop_gathered(c) ==
    /\ call[c].pc = "gather"
    /\ task[call[c].awaited].pc = "done"
    /\ LET hw == set_hw_enabled(FALSE, gpio)
       IN  gpio' = hw.gpio /\ hw_log' = hw.log
    /\ task' = Joined(c)
    /\ proc_task' = 0
    /\ call' = Returned(c, call[c].op, "ok")
    /\ UNCHANGED <<config, child, logged>>

\* The calls of the owner: it awaits each call before it makes the next.
Start == start(Owner)

StartSynced == start_synced(Owner)

StartCreateTask == start_create_task(Owner)

Stop == stop(Owner)

Cleanup == cleanup(Owner)

StopGathered == stop_gathered(Owner)

Loop ==
    \/ TaskFirstStep
    \/ TaskResolved
    \/ TaskSpawned
    \/ TaskReadLine
    \/ TaskReadEmpty
    \/ TaskReadError
    \/ TaskCooled
    \/ TaskKillSlept
    \/ TaskKillWaited
    \/ TaskCancelled
    \/ ChildExits
    \/ ChildReaped

Next ==
    \/ Start
    \/ StartSynced
    \/ StartCreateTask
    \/ Stop
    \/ Cleanup
    \/ StopGathered
    \/ Loop

Spec == Init /\ [][Next]_vars

\* The event loop runs every callback that is ready: a coroutine whose
\* awaited timer, executor call, spawn or gather has completed, a pending
\* cancellation, a dead child's status.  Nothing makes a child write output
\* or exit, and nothing makes the owner issue a call.
Fairness ==
    /\ WF_vars(TaskFirstStep)
    /\ WF_vars(TaskResolved)
    /\ WF_vars(TaskSpawned)
    /\ WF_vars(TaskCooled)
    /\ WF_vars(TaskKillSlept)
    /\ WF_vars(TaskKillWaited)
    /\ WF_vars(TaskCancelled)
    /\ WF_vars(ChildReaped)
    /\ WF_vars(StartSynced)
    /\ WF_vars(StartCreateTask)
    /\ WF_vars(StopGathered)

FairSpec == Spec /\ Fairness

\* ------------------------------------------------------------ properties
OwnerReturned(op) ==
    /\ call[Owner].op = op
    /\ call[Owner].pc = "idle"
    /\ call[Owner].result = "ok"

Configured(pin) == pin > 0

AliveProcs == {p \in Procs : child[p] = "alive"}

\* C1: once stop() has returned, every configured power pin was last
\* written false and is_running() is false, whatever the loop was doing
\* when it was cancelled.
C1_StopLeavesPowerOff ==
    OwnerReturned("stop") =>
        /\ Configured(cap_power) => gpio.cap = "low"
        /\ Configured(conv_power) => gpio.conv = "low"
        /\ ~is_running

C1_Witness ==
    /\ OwnerReturned("stop")
    /\ Configured(cap_power) /\ Configured(conv_power)
    /\ gpio = [cap |-> "low", conv |-> "low"]
    /\ bind # ""

\* C2: when stop() has returned, no child process spawned by the loop is
\* alive.
C2_NoOrphanAfterStop == OwnerReturned("stop") => AliveProcs = {}

\* C3: every stop() that is waiting for the loop task eventually returns.
C3_StopCompletes == (call[Owner].pc = "gather") ~> (call[Owner].pc = "idle")

\* The owner makes the call op in this step.
OwnerCalls(op) ==
    /\ call[Owner].pc = "idle"
    /\ call'[Owner] # call[Owner]
    /\ call'[Owner].op = op

Rejected ==
    /\ call'[Owner].pc = "idle"
    /\ call'[Owner].result = "AssertionError"
    /\ UNCHANGED <<proc_task, task, child, gpio, hw_log, logged>>

TaskAlive(t) == task[t].pc \notin {"none", "done"}

LoopAlive == \E t \in Tasks : TaskAlive(t)

\* C4: start() while running and stop() while not running fail with the
\* usage error, and the failing call writes no pin, creates no task,
\* cancels nothing and leaves the task handle as it is.
C4_WrongStateRejected ==
    [][/\ (OwnerCalls("start") /\ is_running) => Rejected
       /\ (OwnerCalls("stop") /\ ~is_running) => Rejected]_vars

C4_Witness ==
    /\ call[Owner].op = "start"
    /\ call[Owner].result = "AssertionError"
    /\ is_running
    /\ task[proc_task].pc = "read"
    /\ ~task[proc_task].must_cancel

\* C5: cleanup() does what stop() does exactly when the streamer is
\* running, and otherwise returns without an error and without touching a
\* pin, the task or the handle; after cleanup() has returned the streamer
\* is not running, so a second cleanup() changes nothing.
C5_CleanupIdempotent ==
    /\ [](OwnerReturned("cleanup") => ~is_running)
    /\ [][/\ (OwnerCalls("cleanup") /\ ~is_running) =>
                /\ call'[Owner].pc = "idle"
                /\ call'[Owner].result = "ok"
                /\ UNCHANGED <<proc_task, task, child, gpio, hw_log, logged>>
          /\ (OwnerCalls("cleanup") /\ is_running) =>
                /\ call'[Owner].pc = "gather"
                /\ call'[Owner].awaited = proc_task
                /\ task'[proc_task].must_cancel \/ task[proc_task].pc = "done"
                /\ UNCHANGED <<proc_task, gpio, hw_log>>]_vars

C5_Witness ==
    /\ OwnerReturned("cleanup")
    /\ Configured(cap_power)
    /\ gpio.cap = "low"

\* C6 as claimed: is_running() is true iff the supervisor loop task is alive.
C6_RunningIffTaskAlive == is_running <=> LoopAlive

\* C6 as amended: whenever the loop task is alive is_running() is true;
\* is_running() is true with no live task only inside stop(), between the
\* end of the task and the clearing of the handle; inside start(), during
\* power-on, is_running() is false and there is no task.
C6_RunningWhileHandleHeld ==
    /\ LoopAlive => is_running
    /\ (is_running /\ ~LoopAlive) =>
            /\ call[Owner].pc = "gather"
            /\ call[Owner].awaited = proc_task
            /\ task[proc_task].pc = "done"
    /\ call[Owner].pc \in {"sync_delay", "init_delay"} => (~is_running /\ ~LoopAlive)

C6_Witness ==
    /\ is_running
    /\ call[Owner].pc = "gather"
    /\ task[proc_task].pc = "done"

\* The event order the power sequencer is to produce.
PowerOnTrace ==
    (IF Configured(cap_power) THEN <<"cap=True">> ELSE <<>>)
    \o (IF Configured(conv_power) THEN <<"sleep sync_delay", "conv=True">> ELSE <<>>)
    \o <<"sleep init_delay">>

PowerOffTrace ==
    (IF Configured(cap_power) THEN <<"cap=False">> ELSE <<>>)
    \o (IF Configured(conv_power) THEN <<"conv=False">> ELSE <<>>)

\* C7: power-on is capture write, sync_delay sleep and converter write
\* (both only with a converter pin), init_delay sleep; power-off is the two
\* writes with no sleep; a pin that is not configured is never written;
\* the converter pin never leads the capture pin.
C7_PowerSequence ==
    /\ call[Owner].pc = "sync_delay" =>
            /\ Configured(conv_power)
            /\ hw_log \o <<"conv=True", "sleep init_delay">> = PowerOnTrace
    /\ call[Owner].pc = "init_delay" => hw_log = PowerOnTrace
    /\ OwnerReturned("start") => hw_log = PowerOnTrace
    /\ OwnerReturned("stop") => hw_log = PowerOffTrace
    /\ ~Configured(cap_power) => gpio.cap = "unknown"
    /\ ~Configured(conv_power) => gpio.conv = "unknown"
    /\ (Configured(cap_power) /\ gpio.conv = "high") => gpio.cap = "high"
    /\ call[Owner].pc = "sync_delay" => gpio.conv # "high"

C7_Witness ==
    /\ OwnerReturned("stop")
    /\ hw_log = <<"cap=False", "conv=False">>
    /\ gpio = [cap |-> "low", conv |-> "low"]

PinHigh ==
    \/ Configured(cap_power) /\ gpio.cap = "high"
    \/ Configured(conv_power) /\ gpio.conv = "high"

\* C8 as claimed: a configured pin is high only while the loop task exists
\* and has not finished.
C8_PoweredOnlyWhileLoopAlive == PinHigh => LoopAlive

\* C8 as amended: a configured pin is high only while the loop task is
\* alive, or inside start() during power-on before the task is created, or
\* inside stop() after the task has finished and before power-off.
C8_PoweredOnlyFromStartToStop ==
    PinHigh =>
        \/ LoopAlive
        \/ call[Owner].op = "start" /\ call[Owner].pc \in {"sync_delay", "init_delay"}
        \/ call[Owner].pc = "gather" /\ task[call[Owner].awaited].pc = "done"

C8_Witness ==
    /\ Configured(conv_power)
    /\ gpio.conv = "high"
    /\ call[Owner].pc = "idle"
    /\ is_running
    /\ task[proc_task].pc = "cooldown"

\* C9: a loop task exists only after power-on has completed, with both
\* sleeps, and before any power-off write; the step in which stop() powers
\* off is taken only when the task it awaits has finished.
C9_LoopBracketedByPower ==
    /\ []((\E t \in Tasks : task[t].pc # "none") =>
            /\ hw_log = PowerOnTrace
            /\ Configured(cap_power) => gpio.cap = "high"
            /\ Configured(conv_power) => gpio.conv = "high")
    /\ [][(\/ call[Owner].pc = "gather" /\ call'[Owner].pc = "idle"
           \/ \E pin \in {"cap", "conv"} : gpio'[pin] = "low" /\ gpio[pin] # "low") =>
                /\ call[Owner].pc = "gather"
                /\ task[call[Owner].awaited].pc = "done"
                /\ ~LoopAlive]_vars

C9_Witness ==
    /\ is_running
    /\ task[proc_task].pc = "spawn"
    /\ hw_log = <<"cap=True", "sleep sync_delay", "conv=True", "sleep init_delay">>
    /\ gpio = [cap |-> "high", conv |-> "high"]

\* C10: at most one child process is alive at any instant.
C10_AtMostOneChild == Cardinality(AliveProcs) <= 1

\* ------------------------------------------------------------------ C11
\* The coroutine has had a CancelledError thrown in, or is about to.
CancelRequested(t) == task[t].must_cancel \/ task[t].cancelled

OnlyCancellationEnds == \A t \in Tasks : task[t].pc = "done" => task[t].cancelled

\* C11: the supervisor loop ends only as a consequence of a cancellation,
\* and after every failure that is not a cancellation (the loop is in its
\* cooldown) it eventually is back at the device resolution.
C11_LoopRetriesForever ==
    /\ []OnlyCancellationEnds
    /\ \A t \in Tasks :
          (bind # "" /\ task[t].pc = "cooldown")
              ~> (task[t].pc = "resolve" \/ CancelRequested(t))

\* ------------------------------------------------------------------ C12
\* The iteration of task t has failed because locate_by_bind found nothing.
NotFound(t) == task[t].pc = "cooldown" /\ task[t].err = CantLocate

\* C12: with a bind configured, an iteration whose device resolution finds
\* nothing spawns no child and waits in the cooldown, and what follows the
\* cooldown (unless the task is cancelled) is a new device resolution; a
\* child is spawned only by an iteration that has got a device path from
\* its own resolution just before.
C12_NotFoundRetries ==
    [][\A t \in Tasks :
        /\ (task[t].pc = "resolve" /\ NotFound(t)')
               => (task'[t].proc = 0 /\ child' = child)
        /\ (NotFound(t) /\ ~task[t].must_cancel /\ task'[t].pc # "cooldown")
               => (task'[t].pc = "resolve" /\ task'[t].proc = 0 /\ child' = child)
        /\ (bind # "" /\ task[t].pc # "spawn" /\ task'[t].pc = "spawn")
               => task[t].pc = "resolve"
        /\ (task[t].proc = 0 /\ task'[t].proc # 0)
               => (task[t].pc = "spawn" /\ task[t].err = "")
      ]_vars

\* The device was not found, and the iteration before it had found it and
\* run a child.
C12_Witness ==
    \E t \in Tasks : NotFound(t) /\ logged = Killed /\ child = [p \in Procs |-> "free"]

\* ------------------------------------------------------------------ C13
\* The cycle of task t has run a child and has ended in `except Exception`.
CycleFailed(t) == task[t].pc = "cooldown" /\ task[t].proc # 0

\* C13: a read loop that ends without a cancellation, whatever the exit
\* status of the child (0 included), ends in the cooldown; what follows the
\* cooldown is the next cycle, after __kill where the child is still
\* running: no exit status ends the loop or lets it skip the cooldown.
C13_ExitAlwaysRestarts ==
    [][\A t \in Tasks :
        /\ (task[t].pc = "read" /\ ~task[t].must_cancel /\ task'[t].pc # "read")
               => (CycleFailed(t)' /\ task'[t].proc = task[t].proc
                   /\ task'[t].err \in {WTF, ValueError})
        /\ (CycleFailed(t) /\ ~task[t].must_cancel /\ task'[t].pc # "cooldown")
               => \/ task'[t].pc \in {"resolve", "spawn"} /\ task'[t].proc = 0
                  \/ task'[t].pc = "kill_sleep"
                     /\ returncode_is_None(child, task[t].proc)
      ]_vars

\* The child has exited with status 0 and the loop is in its cooldown.
C13_Witness ==
    \E t \in Tasks : CycleFailed(t) /\ child[task[t].proc] = "returncode 0"
                      /\ task[t].err = WTF /\ ~CancelRequested(t)

\* ------------------------------------------------------------------ C14
\* This step ends the read loop of task t for the next cycle (it was not
\* cancelled) although the child has not exited.
Abandons(t) ==
    /\ task[t].pc = "read" /\ ~task[t].must_cancel
    /\ task'[t].pc = "cooldown"
    /\ returncode_is_None(child', task[t].proc)

\* While the loop reads, the local `empty` is the number of blank reads in
\* a row, and the loop does not go on reading after EmptyLimit of them.
CountsBlankReads ==
    \A t \in Tasks : task[t].pc = "read"
        => (task[t].empty = task[t].blank_reads /\ task[t].blank_reads < EmptyLimit)

\* C14 as claimed: with a child that has not exited, the read loop is
\* ended exactly by the 100th blank read in a row, and by nothing else.
C14_StallExactlyAt100 ==
    /\ []CountsBlankReads
    /\ [][\A t \in Tasks : Abandons(t) => task[t].blank_reads + 1 = EmptyLimit]_vars

\* C14 amended: with a child that has not exited, the read loop is ended
\* by the 100th blank read in a row (RuntimeError "WTF"), a line that is
\* not blank setting the count back to 0, or by readline() raising.
C14_StallAt100OrReadRaises ==
    /\ []CountsBlankReads
    /\ [][\A t \in Tasks : Abandons(t) =>
            \/ task'[t].err = WTF /\ task[t].blank_reads + 1 = EmptyLimit
            \/ task'[t].err = ValueError]_vars

\* The loop has given up on a silent child that is still running.
C14_Witness ==
    \E t \in Tasks : CycleFailed(t) /\ task[t].err = WTF
                      /\ child[task[t].proc] = "alive" /\ ~CancelRequested(t)

\* ------------------------------------------------------------------ C15
\* C15: a command template with a placeholder that cannot be substituted
\* never puts the loop into its cooldown-and-retry cycle.
C15_BadTemplateNeverRetried ==
    \A t \in Tasks : ~(task[t].pc = "cooldown" /\ task[t].err = KeyError)

\* ------------------------------------------------------------------ C16
\* The calls of a __kill that has got to its end, in their order.
Escalated == {<<"terminate", "sleep", "wait">>,
              <<"terminate", "sleep", "kill", "wait">>,
              <<"terminate", "sleep", "kill raised", "wait">>}

\* The calls __kill can have made so far.
KillOrder ==
    \A t \in Tasks :
        task[t].kill_log \in Escalated \cup {<<>>, <<"terminate raised">>,
                                             <<"terminate", "sleep">>}

\* A task that has ended after SIGTERM was sent to its child has gone on
\* to the end of __kill, and the exit status has been logged.
EndsEscalated ==
    \A t \in Tasks :
        (task[t].pc = "done" /\ task[t].kill_log # <<>>
         /\ Head(task[t].kill_log) = "terminate")
            => (task[t].kill_log \in Escalated /\ logged = Killed)

\* After its sleep __kill calls kill() iff the return code is still None.
KillsIffNotExited ==
    [][\A t \in Tasks :
        (task[t].pc = "kill_sleep" /\ ~task[t].must_cancel
         /\ task'[t].pc # "kill_sleep")
            => (returncode_is_None(child, task[t].proc)
                  <=> (task'[t].pc = "kill_wait"
                       /\ task'[t].kill_log[3] \in {"kill", "kill raised"}))
      ]_vars

\* C16: __kill sends SIGTERM, sleeps 1 s, calls kill() iff the return code
\* is still None after the sleep, then waits for the exit status; a task
\* that is stopped with a child that ignores SIGTERM ends with the kill
\* issued and the exit status recorded.
C16_KillEscalation == [](KillOrder /\ EndsEscalated) /\ KillsIffNotExited

\* ------------------------------------------------------------------ C17
\* C17: a kill() that fails while the child is still running is logged as
\* an inability to kill and __kill returns: __kill is never left waiting
\* for a running child that it has failed to kill.
C17_KillFailureLogged ==
    \A t \in Tasks :
        (task[t].pc = "kill_wait" /\ task[t].kill_log[3] = "kill raised")
            => child[task[t].proc] # "alive"

\* ------------------------------------------------------------------ C18
\* C18 as claimed: the child of a cycle is not running while the loop is in
\* the cooldown of that cycle.
C18_NoChildDuringCooldown ==
    \A t \in Tasks : CycleFailed(t) => child[task[t].proc] # "alive"

\* C18 amended: a cycle is left, for the next one or for the end of the
\* task, with the return code of its child still None only from inside
\* __kill or with the failure of terminate() logged: __kill is called on
\* such a child on every way out of the cycle (and, after a failure, it is
\* called after the cooldown).
C18_KillBeforeNextCycle ==
    [][\A t \in Tasks :
        (task[t].proc # 0 /\ task'[t].proc # task[t].proc
         /\ returncode_is_None(child, task[t].proc))
            => (task[t].pc \in {"kill_sleep", "kill_wait"} \/ logged' = CantKill)
      ]_vars

\* After the cooldown of a failed cycle __kill has sent SIGTERM to the
\* child, which was running all through the cooldown.
C18_Witness ==
    \E t \in Tasks : task[t].pc = "kill_sleep" /\ task[t].after = "continue"
                      /\ child[task[t].proc] = "alive"

\* ------------------------------------------------------------------ C19
\* C19: once a CancelledError has been thrown into the loop, in whatever
\* state, the loop resolves no device, spawns no child and reads no output
\* any more: it only finishes the kill procedure and ends.
C19_CancelledNeverRestarts ==
    \A t \in Tasks :
        task[t].cancelled => task[t].pc \in {"kill_sleep", "kill_wait", "done"}

\* ------------------------------------------------------------------ C20
\* A second coroutine calls the facade too, whatever the owner is in the
\* middle of.  The supervisor tasks are followed up to their first await
\* (the device lookup or the spawn) and through their cancellation there:
\* the facade sees of a task only whether it has finished.
OtherStart == start(Other)

OtherStartSynced == start_synced(Other)

OtherStartCreateTask == start_create_task(Other)

OtherStop == stop(Other)

OtherCleanup == cleanup(Other)

OtherStopGathered == stop_gathered(Other)

ConcNext ==
    \/ Start
    \/ StartSynced
    \/ StartCreateTask
    \/ Stop
    \/ Cleanup
    \/ StopGathered
    \/ OtherStart
    \/ OtherStartSynced
    \/ OtherStartCreateTask
    \/ OtherStop
    \/ OtherCleanup
    \/ OtherStopGathered
    \/ TaskFirstStep
    \/ TaskResolved
    \/ TaskCancelled

ConcSpec == Init /\ [][ConcNext]_vars

LoopTasks == {t \in Tasks : TaskAlive(t)}

\* C20 as claimed: whatever the interleaving of the facade calls, there is
\* at most one supervisor task.
C20_AtMostOneTask == Cardinality(LoopTasks) <= 1

\* C20 amended: there is at most one supervisor task as long as the facade
\* calls are made one after the other, each awaited before the next.  (The
\* facade does not know its caller, so calls made one after the other are
\* the calls of one coroutine.)
C20_AtMostOneTaskIfSerial == call[Other] = NoCall => Cardinality(LoopTasks) <= 1

\* Calls made one after the other: a start() rejected because a task exists.
C20_Witness ==
    /\ call[Other] = NoCall
    /\ call[Owner].op = "start" /\ call[Owner].result = "AssertionError"
    /\ Cardinality(LoopTasks) = 1
====
